---- MODULE Spec2Model ----
(***************************************************************************)
(* Model of the social-media REST backend (app/models.py,                  *)
(* app/serializers.py, app/views.py, app/permissions.py, app/tasks.py).    *)
(* Tables are sets of rows; every request handler is an action; requests   *)
(* whose validation and INSERT can interleave with other requests are      *)
(* split at that point (validated request in flight, then saved).          *)
(***************************************************************************)
EXTENDS Integers, FiniteSets, Sequences, Bags, TLC

\* ------------------------------------------------------------ bounds
NUsers == 2
MaxInflight == 2
MaxFollowId == 2
MaxProfileId == 2
MaxPosts == 2
MaxComments == 1
MaxLikes == 2
MaxTime == 2
MaxTasks == 2

\* ------------------------------------------------------------ domains
Users == 1..NUsers
\* AnonymousUser: request.user of an unauthenticated request (its id is None)
Anon == 0
Requesters == Users \cup {Anon}
Bios == {"b1", "b2"}
Contents == {"c1", "c2"}
Tags == {"t1"}
\* hashtags_data of a post-create request: a list, which can repeat a text
TagLists == {<<>>} \cup {<<t>> : t \in Tags}
\* longer lists, over two texts
MaxTagList == 2
HashtagTexts == {"t1", "t2"}
HashtagLists == UNION {[1..n -> HashtagTexts] : n \in 0..MaxTagList}
\* a nullable DateTimeField: <<>> is None, <<t>> is the time t
NoTime == <<>>
At(t) == <<t>>
Times == {NoTime} \cup {At(t) : t \in 1..MaxTime}
\* the is_published key of a post-create request body; "absent" when omitted
PubInputs == {"True", "False", "absent"}

VARIABLES
    now,            \* timezone.now()
    strict_typing,  \* the Celery app's argument checking at apply_async
    profiles,       \* Profile rows
    follows,        \* Follow rows
    posts,          \* Post rows
    images,         \* Image rows
    hashtags,       \* Hashtag rows
    post_hashtags,  \* rows of the Post.hashtags many-to-many table
    comments,       \* Comment rows
    likes,          \* Like rows
    tasks,          \* publish_post messages handed to the broker
    seq,            \* the AutoField sequence of each table
    inflight,       \* validated requests whose INSERT has not run yet
    resp            \* the last response sent

vars == <<now, strict_typing, profiles, follows, posts, images, hashtags,
          post_hashtags, comments, likes, tasks, seq, inflight, resp>>

tables == <<profiles, follows, posts, images, hashtags, post_hashtags,
            comments, likes>>

TableNames == {"profile", "follow", "post", "image", "hashtag", "comment",
               "like", "task"}

\* ------------------------------------------------------------ responses
HTTP_200_OK == 200
HTTP_201_CREATED == 201
HTTP_204_NO_CONTENT == 204
HTTP_400_BAD_REQUEST == 400
HTTP_403_FORBIDDEN == 403
HTTP_404_NOT_FOUND == 404
\* an exception that is not an APIException: Django's server-error response
HTTP_500_SERVER_ERROR == 500

\* a response, with the request it answers: the operation, the requesting
\* user, the object addressed (a pk, 0 when none) and the request's fields
\* the query parameters of GET /profile/: "" and {} when one is absent
NoQuery ==
    [user_id |-> "", username |-> {}, firstname |-> {}, lastname |-> {},
     joined |-> <<>>]

Response(op, user, status, obj) ==
    [op |-> op, user |-> user, status |-> status, obj |-> obj,
     is_published |-> "absent", ttp |-> NoTime, at |-> 0, texts |-> <<>>,
     query |-> NoQuery, errors |-> {}]

PostResponse(user, status, obj, pub, ttp, texts) ==
    [Response("post_create", user, status, obj) EXCEPT
        !.is_published = pub, !.ttp = ttp, !.at = now, !.texts = texts]

ListResponse(user, status, query, errors) ==
    [Response("profile_list", user, status, 0) EXCEPT
        !.query = query, !.errors = errors]

NoResponse == Response("none", Anon, 0, 0)

\* ------------------------------------------------------------ helpers
Row(rows, id) == CHOOSE r \in rows : r.id = id
Ids(rows) == {r.id : r \in rows}
\* inflight is a bag: two equal requests can be in flight at once
HasFreeSlot == BagCardinality(inflight) < MaxInflight
Request(kind, user, obj, bio, flag) ==
    [kind |-> kind, user |-> user, obj |-> obj, bio |-> bio, flag |-> flag]
Accepted(r) == inflight (+) SetToBag({r})
Taken(r) == inflight (-) SetToBag({r})
NextId(t) == seq[t] + 1
Bump(t) == [seq EXCEPT ![t] = @ + 1]

\* ------------------------------------------------------------ permissions
IsSafeMethod(method) == method \in {"GET", "HEAD", "OPTIONS"}

\* a permission class that allows every request on every object
has_object_permission_allow_any(method, user, owner) == TRUE

\* has_object_permission with the owner comparison replaced by the check
\* made for the safe methods
has_object_permission_authenticated(method, user, owner) == user # Anon

\* IsOwnerOrAuthenticatedReadOnly.has_object_permission: the owner is the
\* first of obj.user, obj.author, obj.reviewer, obj.follower the object has
has_object_permission(method, user, owner) ==
    IF IsSafeMethod(method) THEN user # Anon ELSE owner = user

\* ------------------------------------------------------------ follow
\* check_not_me with the comparison dropped
check_not_me_never_raises(follower, followee) == TRUE

\* Follow.check_not_me: TRUE when no error is raised
check_not_me(follower, followee) == follower # followee

\* the Follow table without its unique_follow constraint
unique_follow_dropped(rows, follower, followee) == TRUE

\* Follow.Meta.constraints: UniqueConstraint unique_follow
unique_follow(rows, follower, followee) ==
    ~\E r \in rows : r.follower = follower /\ r.followee = followee

\* Follow.Meta.constraints: CheckConstraint follower_not_followee
follower_not_followee(follower, followee) == follower # followee

\* POST /follow/, up to serializer.is_valid(): FollowSerializer's validators
\* (the unique-together validator the framework derives from unique_follow,
\* when its version derives one) and then FollowSerializer.validate
FollowValidate(u, followee) ==
    /\ IF u = Anon
       THEN \* the AnonymousUser default of `follower` is no User row
            /\ resp' = Response("follow_create", u, HTTP_500_SERVER_ERROR, followee)
            /\ UNCHANGED inflight
       ELSE IF ~check_not_me(u, followee)
       THEN /\ resp' = Response("follow_create", u, HTTP_400_BAD_REQUEST, followee)
            /\ UNCHANGED inflight
       ELSE \/ /\ ~unique_follow(follows, u, followee)
               /\ resp' = Response("follow_create", u, HTTP_400_BAD_REQUEST, followee)
               /\ UNCHANGED inflight
            \/ /\ HasFreeSlot
               /\ inflight' = Accepted(Request("follow", u, followee, "", FALSE))
               /\ UNCHANGED resp
    /\ UNCHANGED <<now, strict_typing, tables, tasks, seq>>

\* POST /follow/, serializer.save(): the INSERT under the table's constraints
FollowSave(r) ==
    /\ BagIn(r, inflight) /\ r.kind = "follow"
    /\ inflight' = Taken(r)
    /\ IF /\ unique_follow(follows, r.user, r.obj)
          /\ follower_not_followee(r.user, r.obj)
          /\ NextId("follow") <= MaxFollowId
       THEN /\ follows' = follows \cup
                  {[id |-> NextId("follow"), follower |-> r.user, followee |-> r.obj]}
            /\ seq' = Bump("follow")
            /\ resp' = Response("follow_create", r.user, HTTP_201_CREATED, r.obj)
       ELSE \* IntegrityError
            /\ resp' = Response("follow_create", r.user, HTTP_500_SERVER_ERROR, r.obj)
            /\ UNCHANGED <<follows, seq>>
    /\ UNCHANGED <<now, strict_typing, profiles, posts, images, hashtags,
                   post_hashtags, comments, likes, tasks>>

\* a get_queryset that returns the class attribute queryset unfiltered
FollowQueryset_all(u) == follows

\* FollowViewSet.get_queryset
FollowQueryset(u) == {r \in follows : r.follower = u}

\* DELETE /follow/<id>/
FollowDestroy(u, id) ==
    /\ IF id \notin Ids(FollowQueryset(u))
       THEN /\ resp' = Response("follow_destroy", u, HTTP_404_NOT_FOUND, id)
            /\ UNCHANGED follows
       ELSE IF ~has_object_permission("DELETE", u, Row(follows, id).follower)
       THEN /\ resp' = Response("follow_destroy", u, HTTP_403_FORBIDDEN, id)
            /\ UNCHANGED follows
       ELSE /\ follows' = follows \ {Row(follows, id)}
            /\ resp' = Response("follow_destroy", u, HTTP_204_NO_CONTENT, id)
    /\ UNCHANGED <<now, strict_typing, profiles, posts, images, hashtags,
                   post_hashtags, comments, likes, tasks, seq, inflight>>

\* ------------------------------------------------------------ profile
\* the Profile table without the unique index of its OneToOneField
profile_user_unique_dropped(rows, user) == TRUE

\* Profile.user is a OneToOneField: a unique index on user_id
profile_user_unique(rows, user) == ~\E r \in rows : r.user = user

\* ProfileCreateSerializer.validate: TRUE when no error is raised
ProfileCreateSerializer_validate(user) == ~\E r \in profiles : r.user = user

\* POST /profile/, up to serializer.is_valid()
ProfileValidate(u, bio) ==
    /\ IF u = Anon
       THEN \* Profile.objects.filter(user=AnonymousUser) raises TypeError
            /\ resp' = Response("profile_create", u, HTTP_500_SERVER_ERROR, 0)
            /\ UNCHANGED inflight
       ELSE IF ~ProfileCreateSerializer_validate(u)
       THEN /\ resp' = Response("profile_create", u, HTTP_400_BAD_REQUEST, 0)
            /\ UNCHANGED inflight
       ELSE /\ HasFreeSlot
            /\ inflight' = Accepted(Request("profile", u, 0, bio, FALSE))
            /\ UNCHANGED resp
    /\ UNCHANGED <<now, strict_typing, tables, tasks, seq>>

\* POST /profile/, serializer.save(): the INSERT under the unique index
ProfileSave(r) ==
    /\ BagIn(r, inflight) /\ r.kind = "profile"
    /\ inflight' = Taken(r)
    /\ IF profile_user_unique(profiles, r.user) /\ NextId("profile") <= MaxProfileId
       THEN /\ profiles' = profiles \cup
                  {[id |-> NextId("profile"), user |-> r.user, bio |-> r.bio]}
            /\ seq' = Bump("profile")
            /\ resp' = Response("profile_create", r.user, HTTP_201_CREATED,
                                NextId("profile"))
       ELSE \* IntegrityError
            /\ resp' = Response("profile_create", r.user, HTTP_500_SERVER_ERROR, 0)
            /\ UNCHANGED <<profiles, seq>>
    /\ UNCHANGED <<now, strict_typing, follows, posts, images, hashtags,
                   post_hashtags, comments, likes, tasks>>

\* PUT/PATCH /profile/<id>/ with ProfileUpdateSerializer (picture, bio)
ProfileUpdate(u, id, bio) ==
    /\ IF id \notin Ids(profiles)
       THEN /\ resp' = Response("profile_update", u, HTTP_404_NOT_FOUND, id)
            /\ UNCHANGED profiles
       ELSE IF ~has_object_permission("PUT", u, Row(profiles, id).user)
       THEN /\ resp' = Response("profile_update", u, HTTP_403_FORBIDDEN, id)
            /\ UNCHANGED profiles
       ELSE /\ profiles' = (profiles \ {Row(profiles, id)}) \cup
                  {[Row(profiles, id) EXCEPT !.bio = bio]}
            /\ resp' = Response("profile_update", u, HTTP_200_OK, id)
    /\ UNCHANGED <<now, strict_typing, follows, posts, images, hashtags,
                   post_hashtags, comments, likes, tasks, seq, inflight>>

\* DELETE /profile/<id>/
ProfileDestroy(u, id) ==
    /\ IF id \notin Ids(profiles)
       THEN /\ resp' = Response("profile_destroy", u, HTTP_404_NOT_FOUND, id)
            /\ UNCHANGED profiles
       ELSE IF ~has_object_permission("DELETE", u, Row(profiles, id).user)
       THEN /\ resp' = Response("profile_destroy", u, HTTP_403_FORBIDDEN, id)
            /\ UNCHANGED profiles
       ELSE /\ profiles' = profiles \ {Row(profiles, id)}
            /\ resp' = Response("profile_destroy", u, HTTP_204_NO_CONTENT, id)
    /\ UNCHANGED <<now, strict_typing, follows, posts, images, hashtags,
                   post_hashtags, comments, likes, tasks, seq, inflight>>

\* ------------------------------------------------------------ publish task
\* @shared_task(bind=True, ...): the task instance is passed as the first
\* positional argument of the decorated function
bind == TRUE

\* @shared_task(max_retries=3): the limit of self.retry() calls
max_retries == 3

\* def publish_post(post_id): the number of positional parameters
publish_post_arity == 1

\* an argument of a call: the task instance, or a primary key
SelfArg == [task |-> TRUE, pk |-> 0]
PkArg(id) == [task |-> FALSE, pk |-> id]

\* the positional arguments the function is called with for message args
CallArgs(args) == IF bind THEN <<SelfArg>> \o args ELSE args

\* the call binds to the function's signature (otherwise TypeError)
SignatureAccepts(args) == Len(CallArgs(args)) = publish_post_arity

\* publish_post's body never calls self.retry() and the decorator names no
\* autoretry_for: a raised exception ends the task
RetriesOnFailure == FALSE

\* the body of publish_post, called with message args: the Post rows and the
\* outcome
publish_post(args) ==
    IF ~SignatureAccepts(args)
    THEN [posts |-> posts, outcome |-> "FAILURE"]
    ELSE LET post_id == CallArgs(args)[1] IN
         IF post_id.task \/ post_id.pk \notin Ids(posts)
         THEN \* Post.objects.get raises
              [posts |-> posts, outcome |-> "FAILURE"]
         ELSE [posts |-> (posts \ {Row(posts, post_id.pk)}) \cup
                           {[Row(posts, post_id.pk) EXCEPT !.is_published = TRUE]},
               outcome |-> "SUCCESS"]

\* the worker executes a message whose eta has come
WorkerRun(t) ==
    /\ t \in tasks /\ t.state = "PENDING"
    /\ t.eta # NoTime /\ now >= t.eta[1]
    /\ LET r == publish_post(t.args) IN
       /\ posts' = r.posts
       /\ tasks' = (tasks \ {t}) \cup
             {[t EXCEPT !.runs = @ + 1,
                        !.retries = IF r.outcome = "FAILURE" /\ RetriesOnFailure
                                       /\ t.retries < max_retries
                                    THEN @ + 1 ELSE @,
                        !.state = IF r.outcome = "FAILURE" /\ RetriesOnFailure
                                     /\ t.retries < max_retries
                                  THEN "PENDING" ELSE r.outcome]}
    /\ UNCHANGED <<now, strict_typing, profiles, follows, images, hashtags,
                   post_hashtags, comments, likes, seq, inflight, resp>>

\* time passes
Tick ==
    /\ now < MaxTime
    /\ now' = now + 1
    /\ UNCHANGED <<strict_typing, tables, tasks, seq, inflight, resp>>

\* ------------------------------------------------------------ post
\* Post.validate_post: TRUE when no error is raised
validate_post(is_published, time_to_publicate) ==
    /\ ~(is_published = "False" /\ time_to_publicate = NoTime)
    /\ ~(is_published = "False" /\ time_to_publicate # NoTime
           /\ time_to_publicate[1] <= now)

\* Hashtag.objects.create in the place of get_or_create
Hashtag_create(rows, text) ==
    LET h == [id |-> seq["hashtag"] + Cardinality(rows \ hashtags) + 1,
              text |-> text]
    IN [rows |-> rows \cup {h}, obj |-> h]

\* Hashtag.objects.get_or_create(text=...): the table afterwards and the row
\* returned
Hashtag_get_or_create(rows, text) ==
    IF \E h \in rows : h.text = text
    THEN [rows |-> rows, obj |-> CHOOSE h \in rows : h.text = text]
    ELSE LET h == [id |-> seq["hashtag"] + Cardinality(rows \ hashtags) + 1,
                   text |-> text]
         IN [rows |-> rows \cup {h}, obj |-> h]

\* the loop over hashtags_data: get_or_create, then post.hashtags.add
RECURSIVE HashtagsAfter(_, _, _)
HashtagsAfter(st, post, texts) ==
    IF texts = <<>>
    THEN st
    ELSE LET g == Hashtag_get_or_create(st.hashtags, Head(texts))
         IN HashtagsAfter(
               [hashtags |-> g.rows,
                post_hashtags |-> st.post_hashtags \cup
                                     {[post |-> post, hashtag |-> g.obj.id]}],
               post, Tail(texts))

\* a block run without a transaction: what was written stays
transaction_atomic_absent(before, written, failed) == written

\* with transaction.atomic(): an exception inside the block undoes its writes
transaction_atomic(before, written, failed) ==
    IF failed THEN before ELSE written

\* PostCreateSerializer.validate and .create; texts is hashtags_data
PostCreate(u, content, pub, ttp, img, texts) ==
    /\ LET id == NextId("post")
           scheduled == pub = "False" /\ ttp # NoTime
           before == [posts |-> posts, images |-> images, hashtags |-> hashtags,
                      post_hashtags |-> post_hashtags]
           post == [id |-> id, author |-> u, content |-> content,
                    is_published |-> (pub # "False"), time_to_publicate |-> ttp]
           tagged == HashtagsAfter(
                        [hashtags |-> hashtags, post_hashtags |-> post_hashtags],
                        id, texts)
           written == [posts |-> posts \cup {post},
                       images |-> IF img
                                  THEN images \cup {[id |-> NextId("image"), post |-> id]}
                                  ELSE images,
                       hashtags |-> tagged.hashtags,
                       post_hashtags |-> tagged.post_hashtags]
           \* publish_post.apply_async, the last statement, raises TypeError
           failed == scheduled /\ strict_typing /\ ~SignatureAccepts(<<PkArg(id)>>)
           after == transaction_atomic(before, written, failed)
       IN
       IF ~validate_post(pub, ttp)
       THEN /\ resp' = PostResponse(u, HTTP_400_BAD_REQUEST, 0, pub, ttp, texts)
            /\ UNCHANGED <<tables, tasks, seq>>
       ELSE IF u = Anon
       THEN \* Post.author cannot be assigned the AnonymousUser
            /\ resp' = PostResponse(u, HTTP_500_SERVER_ERROR, 0, pub, ttp, texts)
            /\ UNCHANGED <<tables, tasks, seq>>
       ELSE /\ after = before \/
                 (id <= MaxPosts /\ (~scheduled \/ NextId("task") <= MaxTasks))
            /\ posts' = after.posts
            /\ images' = after.images
            /\ hashtags' = after.hashtags
            /\ post_hashtags' = after.post_hashtags
            /\ tasks' = IF scheduled /\ ~failed
                        THEN tasks \cup
                               {[id |-> NextId("task"), args |-> <<PkArg(id)>>,
                                 eta |-> ttp, state |-> "PENDING", runs |-> 0,
                                 retries |-> 0]}
                        ELSE tasks
            /\ seq' = IF after = before
                      THEN seq
                      ELSE [seq EXCEPT
                              !["post"] = id,
                              !["image"] = IF img THEN @ + 1 ELSE @,
                              !["hashtag"] = @ + Cardinality(after.hashtags \ hashtags),
                              !["task"] = IF scheduled /\ ~failed THEN @ + 1 ELSE @]
            /\ resp' = IF failed
                       THEN PostResponse(u, HTTP_500_SERVER_ERROR, 0, pub, ttp, texts)
                       ELSE PostResponse(u, HTTP_201_CREATED, id, pub, ttp, texts)
            /\ UNCHANGED <<profiles, follows, comments, likes>>
    /\ UNCHANGED <<now, strict_typing, inflight>>

\* PostViewSet.queryset
PostViewSet_queryset == {p \in posts : p.is_published}

\* DELETE /post/<id>/: rows that reference the post are deleted with it
PostDestroy(u, id) ==
    /\ IF id \notin Ids(PostViewSet_queryset)
       THEN /\ resp' = Response("post_destroy", u, HTTP_404_NOT_FOUND, id)
            /\ UNCHANGED tables
       ELSE IF ~has_object_permission("DELETE", u, Row(posts, id).author)
       THEN /\ resp' = Response("post_destroy", u, HTTP_403_FORBIDDEN, id)
            /\ UNCHANGED tables
       ELSE /\ posts' = posts \ {Row(posts, id)}
            /\ images' = {r \in images : r.post # id}
            /\ post_hashtags' = {r \in post_hashtags : r.post # id}
            /\ comments' = {r \in comments : r.post # id}
            /\ likes' = {r \in likes : r.post # id}
            /\ resp' = Response("post_destroy", u, HTTP_204_NO_CONTENT, id)
            /\ UNCHANGED <<profiles, follows, hashtags>>
    /\ UNCHANGED <<now, strict_typing, tasks, seq, inflight>>

\* AllPostsListSerializer with is_published among its fields
AllPostsListSerializer_with_is_published == {"content", "is_published"}

\* the fields of AllPostsListSerializer that are neither read-only nor the
\* nested images
AllPostsListSerializer_writable == {"content"}

\* the bodies of the post update requests
PostBodies == [content : Contents, is_published : BOOLEAN, author : Users]

\* PUT/PATCH /post/<id>/ with AllPostsListSerializer; data is the request
\* body, which may name an author and is_published
PostUpdate(u, id, data) ==
    /\ IF id \notin Ids(PostViewSet_queryset)
       THEN /\ resp' = Response("post_update", u, HTTP_404_NOT_FOUND, id)
            /\ UNCHANGED posts
       ELSE IF ~has_object_permission("PUT", u, Row(posts, id).author)
       THEN /\ resp' = Response("post_update", u, HTTP_403_FORBIDDEN, id)
            /\ UNCHANGED posts
       ELSE LET old == Row(posts, id) IN
            /\ posts' = (posts \ {old}) \cup
                  {[f \in DOMAIN old |->
                      IF f \in AllPostsListSerializer_writable
                      THEN data[f] ELSE old[f]]}
            /\ resp' = Response("post_update", u, HTTP_200_OK, id)
    /\ UNCHANGED <<now, strict_typing, profiles, follows, images, hashtags,
                   post_hashtags, comments, likes, tasks, seq, inflight>>

\* ------------------------------------------------------------ comment
\* validate_feedback with the comparison dropped
validate_feedback_never_raises(reviewer, post) == TRUE

\* Comment.validate_feedback: TRUE when no error is raised
validate_feedback(reviewer, post) == reviewer # post.author

\* CommentUpdateSerializer: the fields of Meta.fields not in read_only_fields
CommentUpdateSerializer_writable == {"content"}

\* POST /comment/ with CommentCreateSerializer; `post` is a primary key
CommentCreate(u, post, content) ==
    /\ IF post \notin Ids(posts)
       THEN \* the related field finds no Post row
            /\ resp' = Response("comment_create", u, HTTP_400_BAD_REQUEST, post)
            /\ UNCHANGED <<comments, seq>>
       ELSE IF ~validate_feedback(u, Row(posts, post))
       THEN /\ resp' = Response("comment_create", u, HTTP_400_BAD_REQUEST, post)
            /\ UNCHANGED <<comments, seq>>
       ELSE IF u = Anon
       THEN \* Comment.reviewer cannot be assigned the AnonymousUser
            /\ resp' = Response("comment_create", u, HTTP_500_SERVER_ERROR, post)
            /\ UNCHANGED <<comments, seq>>
       ELSE /\ NextId("comment") <= MaxComments
            /\ comments' = comments \cup
                  {[id |-> NextId("comment"), reviewer |-> u, post |-> post,
                    content |-> content]}
            /\ seq' = Bump("comment")
            /\ resp' = Response("comment_create", u, HTTP_201_CREATED, post)
    /\ UNCHANGED <<now, strict_typing, profiles, follows, posts, images, hashtags,
                   post_hashtags, likes, tasks, inflight>>

\* PUT/PATCH /comment/<id>/ with CommentUpdateSerializer; data is the request
\* body, which may name a reviewer and a post
CommentUpdate(u, id, data) ==
    /\ IF id \notin Ids(comments)
       THEN /\ resp' = Response("comment_update", u, HTTP_404_NOT_FOUND, id)
            /\ UNCHANGED comments
       ELSE IF ~has_object_permission("PUT", u, Row(comments, id).reviewer)
       THEN /\ resp' = Response("comment_update", u, HTTP_403_FORBIDDEN, id)
            /\ UNCHANGED comments
       ELSE LET old == Row(comments, id) IN
            /\ comments' = (comments \ {old}) \cup
                  {[f \in DOMAIN old |->
                      IF f \in CommentUpdateSerializer_writable
                      THEN data[f] ELSE old[f]]}
            /\ resp' = Response("comment_update", u, HTTP_200_OK, id)
    /\ UNCHANGED <<now, strict_typing, profiles, follows, posts, images, hashtags,
                   post_hashtags, likes, tasks, seq, inflight>>

\* DELETE /comment/<id>/
CommentDestroy(u, id) ==
    /\ IF id \notin Ids(comments)
       THEN /\ resp' = Response("comment_destroy", u, HTTP_404_NOT_FOUND, id)
            /\ UNCHANGED comments
       ELSE IF ~has_object_permission("DELETE", u, Row(comments, id).reviewer)
       THEN /\ resp' = Response("comment_destroy", u, HTTP_403_FORBIDDEN, id)
            /\ UNCHANGED comments
       ELSE /\ comments' = comments \ {Row(comments, id)}
            /\ resp' = Response("comment_destroy", u, HTTP_204_NO_CONTENT, id)
    /\ UNCHANGED <<now, strict_typing, profiles, follows, posts, images, hashtags,
                   post_hashtags, likes, tasks, seq, inflight>>

\* ------------------------------------------------------------ like
\* Like.validate_like: TRUE when no error is raised
validate_like(reviewer, post) == reviewer # post.author

\* the Like table without unique_together
like_unique_together_dropped(rows, post, reviewer) == TRUE

\* Like.Meta.unique_together = ("post", "reviewer")
like_unique_together(rows, post, reviewer) ==
    ~\E r \in rows : r.post = post /\ r.reviewer = reviewer

\* POST /like/ with LikeCreateSerializer, up to serializer.is_valid(): the
\* field checks and the unique-together validator; the serializer defines no
\* validate and so never calls Like.validate_like
LikeValidate(u, post, is_likes) ==
    /\ IF post \notin Ids(posts)
       THEN /\ resp' = Response("like_create", u, HTTP_400_BAD_REQUEST, post)
            /\ UNCHANGED inflight
       ELSE IF u = Anon
       THEN \* filtering Like rows by the AnonymousUser raises TypeError
            /\ resp' = Response("like_create", u, HTTP_500_SERVER_ERROR, post)
            /\ UNCHANGED inflight
       ELSE IF ~like_unique_together(likes, post, u)
       THEN /\ resp' = Response("like_create", u, HTTP_400_BAD_REQUEST, post)
            /\ UNCHANGED inflight
       ELSE /\ HasFreeSlot
            /\ inflight' = Accepted(Request("like", u, post, "", is_likes))
            /\ UNCHANGED resp
    /\ UNCHANGED <<now, strict_typing, tables, tasks, seq>>

\* POST /like/, serializer.save(): the INSERT under the table's constraints
LikeSave(r) ==
    /\ BagIn(r, inflight) /\ r.kind = "like"
    /\ inflight' = Taken(r)
    /\ IF /\ like_unique_together(likes, r.obj, r.user)
          /\ r.obj \in Ids(posts)
          /\ NextId("like") <= MaxLikes
       THEN /\ likes' = likes \cup
                  {[id |-> NextId("like"), post |-> r.obj, reviewer |-> r.user,
                    is_likes |-> r.flag]}
            /\ seq' = Bump("like")
            /\ resp' = Response("like_create", r.user, HTTP_201_CREATED, r.obj)
       ELSE \* IntegrityError
            /\ resp' = Response("like_create", r.user, HTTP_500_SERVER_ERROR, r.obj)
            /\ UNCHANGED <<likes, seq>>
    /\ UNCHANGED <<now, strict_typing, profiles, follows, posts, images, hashtags,
                   post_hashtags, comments, tasks>>

\* LikePostExtraActionSerializer.validate names super(LikePostSerializer,
\* self): whether the module defines a name LikePostSerializer
LikePostSerializer_defined == FALSE

\* LikePostExtraActionSerializer.validate: "ok", "invalid" (ValidationError)
\* or "NameError"
LikePostExtraActionSerializer_validate(reviewer, post) ==
    IF ~LikePostSerializer_defined THEN "NameError"
    ELSE IF ~validate_like(reviewer, post) THEN "invalid"
    ELSE "ok"

\* POST /post/<id>/like/: PostViewSet.like
PostLike(u, id, is_likes) ==
    /\ IF id \notin Ids(PostViewSet_queryset)
       THEN /\ resp' = Response("post_like", u, HTTP_404_NOT_FOUND, id)
            /\ UNCHANGED <<likes, seq>>
       ELSE IF ~has_object_permission("POST", u, Row(posts, id).author)
       THEN /\ resp' = Response("post_like", u, HTTP_403_FORBIDDEN, id)
            /\ UNCHANGED <<likes, seq>>
       ELSE IF ~like_unique_together(likes, id, u)
       THEN /\ resp' = Response("post_like", u, HTTP_400_BAD_REQUEST, id)
            /\ UNCHANGED <<likes, seq>>
       ELSE LET v == LikePostExtraActionSerializer_validate(u, Row(posts, id)) IN
            IF v = "NameError"
            THEN /\ resp' = Response("post_like", u, HTTP_500_SERVER_ERROR, id)
                 /\ UNCHANGED <<likes, seq>>
            ELSE IF v = "invalid"
            THEN /\ resp' = Response("post_like", u, HTTP_400_BAD_REQUEST, id)
                 /\ UNCHANGED <<likes, seq>>
            ELSE /\ NextId("like") <= MaxLikes
                 /\ likes' = likes \cup
                       {[id |-> NextId("like"), post |-> id, reviewer |-> u,
                         is_likes |-> is_likes]}
                 /\ seq' = Bump("like")
                 /\ resp' = Response("post_like", u, HTTP_201_CREATED, id)
    /\ UNCHANGED <<now, strict_typing, profiles, follows, posts, images, hashtags,
                   post_hashtags, comments, tasks, inflight>>

\* PUT/PATCH /like/<id>/ with LikeUpdateSerializer (post and reviewer are
\* read-only)
LikeUpdate(u, id, is_likes) ==
    /\ IF id \notin Ids(likes)
       THEN /\ resp' = Response("like_update", u, HTTP_404_NOT_FOUND, id)
            /\ UNCHANGED likes
       ELSE IF ~has_object_permission("PUT", u, Row(likes, id).reviewer)
       THEN /\ resp' = Response("like_update", u, HTTP_403_FORBIDDEN, id)
            /\ UNCHANGED likes
       ELSE /\ likes' = (likes \ {Row(likes, id)}) \cup
                  {[Row(likes, id) EXCEPT !.is_likes = is_likes]}
            /\ resp' = Response("like_update", u, HTTP_200_OK, id)
    /\ UNCHANGED <<now, strict_typing, profiles, follows, posts, images, hashtags,
                   post_hashtags, comments, tasks, seq, inflight>>

\* DELETE /like/<id>/
LikeDestroy(u, id) ==
    /\ IF id \notin Ids(likes)
       THEN /\ resp' = Response("like_destroy", u, HTTP_404_NOT_FOUND, id)
            /\ UNCHANGED likes
       ELSE IF ~has_object_permission("DELETE", u, Row(likes, id).reviewer)
       THEN /\ resp' = Response("like_destroy", u, HTTP_403_FORBIDDEN, id)
            /\ UNCHANGED likes
       ELSE /\ likes' = likes \ {Row(likes, id)}
            /\ resp' = Response("like_destroy", u, HTTP_204_NO_CONTENT, id)
    /\ UNCHANGED <<now, strict_typing, profiles, follows, posts, images, hashtags,
                   post_hashtags, comments, tasks, seq, inflight>>

\* ------------------------------------------------------------ post reads
\* PostViewSet.get_queryset: the tags, author and content query parameters
\* ({} when a parameter is absent); usernames and contents are told apart
\* by the filter texts
PostViewSet_get_queryset(tags, author, content) ==
    {p \in PostViewSet_queryset :
        /\ tags = {} \/ \E r \in post_hashtags, h \in hashtags :
                           r.post = p.id /\ r.hashtag = h.id /\ h.text \in tags
        /\ author = {} \/ p.author \in author
        /\ content = {} \/ p.content \in content}

\* GET /post/: no object is checked, so no permission is
PostList(u, tags, author, content) == PostViewSet_get_queryset(tags, author, content)

\* GET /post/<id>/
PostRetrieve(u, id) ==
    {p \in PostViewSet_get_queryset({}, {}, {}) :
        p.id = id /\ has_object_permission("GET", u, p.author)}

\* User.following through Follow(follower, followee)
following(u) == {r.followee : r \in {x \in follows : x.follower = u}}

\* GET /post/my_posts/
my_posts(u) == {p \in posts : p.author = u}

\* GET /post/my_following/ (the AnonymousUser has no `following`)
my_following(u) == IF u = Anon THEN {} ELSE {p \in posts : p.author \in following(u)}

\* GET /post/liked/
liked(u) ==
    {p \in PostViewSet_queryset :
        \E l \in likes : l.post = p.id /\ l.reviewer = u /\ l.is_likes}

\* ------------------------------------------------------------ profile list
\* int(user_id) for the texts a request can send: <<>> stands for ValueError
int(text) ==
    CASE text = "1" -> <<1>>
      [] text = "2" -> <<2>>
      [] OTHER -> <<>>

\* datetime.strptime(text, "%Y-%m-%d"): TRUE when no ValueError is raised
strptime(text) == text \in {"2024-01-01", "2024-12-31"}

\* start, end = joined.split(","), then strptime of both: joined is given
\* as the parts the split produces; TRUE when no ValueError is raised
joined_parses(joined) ==
    /\ Len(joined) = 2
    /\ strptime(joined[1])
    /\ strptime(joined[2])

\* user__date_joined__range=(start, end): every user registered in 2024
date_joined_in_range(user, start, end) ==
    start = "2024-01-01" /\ end = "2024-12-31"

\* ProfileViewSet.get_queryset: the rows returned, whether self.extra_context
\* was assigned, and the errors collected
ProfileViewSet_get_queryset(q) ==
    LET user_id_error == q.user_id # "" /\ int(q.user_id) = <<>>
        joined_error == q.joined # <<>> /\ ~joined_parses(q.joined)
        errors == (IF user_id_error THEN {"user_id"} ELSE {})
                     \cup (IF joined_error THEN {"joined"} ELSE {})
        named == {p \in profiles :
                     /\ q.username = {} \/ p.user \in q.username
                     /\ q.firstname = {} \/ p.user \in q.firstname
                     /\ q.lastname = {} \/ p.user \in q.lastname}
    IN
    IF q.user_id # "" /\ ~user_id_error
    THEN [rows |-> {p \in profiles : p.user = int(q.user_id)[1]},
          has_extra_context |-> FALSE, errors |-> {}]
    ELSE IF q.joined # <<>> /\ ~joined_error
    THEN [rows |-> {p \in named :
                       date_joined_in_range(p.user, q.joined[1], q.joined[2])},
          has_extra_context |-> FALSE, errors |-> {}]
    ELSE [rows |-> named, has_extra_context |-> TRUE, errors |-> errors]

\* ProfileViewSet.list: the status, the rows and the errors of the response
ProfileViewSet_list(u, q) ==
    LET g == ProfileViewSet_get_queryset(q) IN
    IF g.has_extra_context /\ g.errors # {}
    THEN [status |-> HTTP_400_BAD_REQUEST, rows |-> {}, errors |-> g.errors]
    ELSE [status |-> HTTP_200_OK, rows |-> g.rows, errors |-> {}]

\* GET /profile/?...: no object is checked, so no permission is
ProfileList(u, q) ==
    /\ resp' = ListResponse(u, ProfileViewSet_list(u, q).status, q,
                            ProfileViewSet_list(u, q).errors)
    /\ UNCHANGED <<now, strict_typing, tables, tasks, seq, inflight>>

\* GET /profile/<id>/
ProfileRetrieve(u, id) ==
    {p \in profiles : p.id = id /\ has_object_permission("GET", u, p.user)}

\* ------------------------------------------------------------ other reads
\* GET /follow/
FollowList(u) == FollowQueryset(u)

\* GET /follow/<id>/
FollowRetrieve(u, id) ==
    {r \in FollowQueryset(u) :
        r.id = id /\ has_object_permission("GET", u, r.follower)}

\* GET /comment/ without query parameters
CommentList(u) == comments

\* GET /comment/<id>/
CommentRetrieve(u, id) ==
    {c \in comments : c.id = id /\ has_object_permission("GET", u, c.reviewer)}

\* GET /like/
LikeList(u) == likes

\* GET /like/<id>/
LikeRetrieve(u, id) ==
    {l \in likes : l.id = id /\ has_object_permission("GET", u, l.reviewer)}

\* User.followers: the reverse side of User.following
followers(u) == {r.follower : r \in {x \in follows : x.followee = u}}

\* GET /following/ (MyFollowingSet, no permission class of its own)
MyFollowingSet(u) == IF u = Anon THEN {} ELSE following(u)

\* GET /followers/ (MyFollowersSet)
MyFollowersSet(u) == IF u = Anon THEN {} ELSE followers(u)

\* ------------------------------------------------------------ image
\* ImageCreateSerializer.validate: TRUE when no error is raised
ImageCreateSerializer_validate(user, post) == user = post.author

\* POST /post/<id>/upload_image/ with a picture: PostViewSet.upload_image
UploadImage(u, id) ==
    /\ IF id \notin Ids(PostViewSet_queryset)
       THEN /\ resp' = Response("upload_image", u, HTTP_404_NOT_FOUND, id)
            /\ UNCHANGED <<images, seq>>
       ELSE IF ~has_object_permission("POST", u, Row(posts, id).author)
       THEN /\ resp' = Response("upload_image", u, HTTP_403_FORBIDDEN, id)
            /\ UNCHANGED <<images, seq>>
       ELSE IF ~ImageCreateSerializer_validate(u, Row(posts, id))
       THEN /\ resp' = Response("upload_image", u, HTTP_400_BAD_REQUEST, id)
            /\ UNCHANGED <<images, seq>>
       ELSE /\ NextId("image") <= MaxPosts + 1
            /\ images' = images \cup {[id |-> NextId("image"), post |-> id]}
            /\ seq' = Bump("image")
            /\ resp' = Response("upload_image", u, HTTP_201_CREATED, id)
    /\ UNCHANGED <<now, strict_typing, profiles, follows, posts, hashtags,
                   post_hashtags, comments, likes, tasks, inflight>>

\* ------------------------------------------------------------ init
Init ==
    /\ now = 0
    /\ strict_typing \in BOOLEAN
    /\ profiles = {}
    /\ follows = {}
    /\ posts = {}
    /\ images = {}
    /\ hashtags = {}
    /\ post_hashtags = {}
    /\ comments = {}
    /\ likes = {}
    /\ tasks = {}
    /\ seq = [t \in TableNames |-> 0]
    /\ inflight = EmptyBag
    /\ resp = NoResponse

\* requests that schedule no publication never reach apply_async: the
\* specifications without scheduled posts fix the setting it depends on
InitWeb == Init /\ strict_typing

\* ------------------------------------------------------------ follow spec
NextFollow ==
    \/ \E u \in Requesters, f \in Users : FollowValidate(u, f)
    \/ \E r \in BagToSet(inflight) : FollowSave(r)
    \/ \E u \in Requesters, id \in 1..MaxFollowId : FollowDestroy(u, id)

SpecFollow == InitWeb /\ [][NextFollow]_vars

\* ------------------------------------------------------------ profile spec
NextProfile ==
    \/ \E u \in Requesters, b \in Bios : ProfileValidate(u, b)
    \/ \E r \in BagToSet(inflight) : ProfileSave(r)
    \/ \E u \in Requesters, id \in 1..MaxProfileId, b \in Bios : ProfileUpdate(u, id, b)
    \/ \E u \in Requesters, id \in 1..MaxProfileId : ProfileDestroy(u, id)

SpecProfile == InitWeb /\ [][NextProfile]_vars

\* ------------------------------------------------------------ publish spec
NextPublish ==
    \/ \E u \in Requesters, pub \in PubInputs, ttp \in Times, img \in BOOLEAN :
          PostCreate(u, "c1", pub, ttp, img, <<>>)
    \/ \E u \in Users, id \in 1..MaxPosts : PostDestroy(u, id)
    \/ \E t \in tasks : WorkerRun(t)
    \/ Tick

SpecPublish == Init /\ [][NextPublish]_vars

\* ------------------------------------------------------------ comment spec
\* posts are created published, without image or hashtags
NextComment ==
    \/ \E u \in Users : PostCreate(u, "c1", "absent", NoTime, FALSE, <<>>)
    \/ \E u \in Users, id \in 1..MaxPosts : PostDestroy(u, id)
    \/ \E u \in Requesters, p \in 1..MaxPosts, c \in Contents : CommentCreate(u, p, c)
    \/ \E u \in Users, id \in 1..MaxComments,
          d \in [reviewer : Users, post : 1..MaxPosts, content : Contents] :
              CommentUpdate(u, id, d)
    \/ \E u \in Users, id \in 1..MaxComments : CommentDestroy(u, id)

SpecComment == InitWeb /\ [][NextComment]_vars

\* ------------------------------------------------------------ like spec
NextLike ==
    \/ \E u \in Users : PostCreate(u, "c1", "absent", NoTime, FALSE, <<>>)
    \/ \E u \in Users, id \in 1..MaxPosts : PostDestroy(u, id)
    \/ \E u \in Requesters, p \in 1..MaxPosts : LikeValidate(u, p, TRUE)
    \/ \E r \in BagToSet(inflight) : LikeSave(r)
    \/ \E u \in Requesters, p \in 1..MaxPosts : PostLike(u, p, TRUE)
    \/ \E u \in Users, id \in 1..MaxLikes, b \in BOOLEAN : LikeUpdate(u, id, b)
    \/ \E u \in Users, id \in 1..MaxLikes : LikeDestroy(u, id)

SpecLike == InitWeb /\ [][NextLike]_vars

\* ------------------------------------------------------------ feed spec
\* follows, scheduled and immediate posts, the clock and the worker
NextFeed ==
    \/ \E u \in Users, f \in Users : FollowValidate(u, f)
    \/ \E r \in BagToSet(inflight) : FollowSave(r)
    \/ \E u \in Users, pub \in PubInputs, ttp \in Times :
          PostCreate(u, "c1", pub, ttp, FALSE, <<>>)
    \/ \E t \in tasks : WorkerRun(t)
    \/ Tick

SpecFeed == Init /\ [][NextFeed]_vars

\* ------------------------------------------------------------ image spec
NextImage ==
    \/ \E u \in Users, img \in BOOLEAN :
          PostCreate(u, "c1", "True", NoTime, img, <<>>)
    \/ \E u \in Requesters, id \in 1..MaxPosts : PostDestroy(u, id)
    \/ \E u \in Requesters, id \in 1..MaxPosts : UploadImage(u, id)

SpecImage == InitWeb /\ [][NextImage]_vars

\* ------------------------------------------------------------ hashtag spec
\* published posts with lists of hashtags; a deleted post leaves its
\* Hashtag rows behind
NextHashtag ==
    \/ \E u \in Users, texts \in HashtagLists :
          PostCreate(u, "c1", "True", NoTime, FALSE, texts)
    \/ \E u \in Users, id \in 1..MaxPosts : PostDestroy(u, id)

SpecHashtag == InitWeb /\ [][NextHashtag]_vars

\* ------------------------------------------------------------ profile list spec
\* the texts a request sends as user_id and as joined (split at the commas),
\* and the users each name filter matches
ProfileQueries ==
    [user_id : {"", "1", "x"},
     username : {{}, {1}}, firstname : {{}, {1}}, lastname : {{}, {1}},
     joined : {<<>>, <<"2024-01-01", "2024-12-31">>, <<"2024-01-01">>,
               <<"01/01/2024", "2024-12-31">>}]

NextProfileList ==
    \/ \E u \in Users : ProfileValidate(u, "b1")
    \/ \E r \in BagToSet(inflight) : ProfileSave(r)
    \/ \E u \in Requesters, q \in ProfileQueries : ProfileList(u, q)

SpecProfileList == InitWeb /\ [][NextProfileList]_vars

\* ------------------------------------------------------------ like pair spec
\* the like-creating operations and the like update, by the users, on the
\* first post
NextLikePair ==
    \/ PostCreate(1, "c1", "absent", NoTime, FALSE, <<>>)
    \/ \E u \in Users, b \in BOOLEAN : LikeValidate(u, 1, b)
    \/ \E r \in BagToSet(inflight) : LikeSave(r)
    \/ \E u \in Requesters, b \in BOOLEAN : PostLike(u, 1, b)
    \/ \E u \in Users, id \in 1..MaxLikes, b \in BOOLEAN : LikeUpdate(u, id, b)

SpecLikePair == InitWeb /\ [][NextLikePair]_vars

\* ------------------------------------------------------------ create spec
\* post-create requests of every kind by one user and by the anonymous
\* requester, and the clock
NextCreate ==
    \/ \E u \in {1, Anon}, pub \in {"False", "absent"}, ttp \in {NoTime, At(MaxTime)},
          img \in BOOLEAN, texts \in TagLists :
             PostCreate(u, "c1", pub, ttp, img, texts)
    \/ Tick

SpecCreate == Init /\ [][NextCreate]_vars

\* ------------------------------------------------------------ one-way spec
\* immediate and scheduled posts of one user, post updates by every user,
\* a comment on the first post, the clock and the worker
NextOneWay ==
    \/ \E pub \in {"False", "absent"}, ttp \in {NoTime, At(MaxTime)} :
          PostCreate(1, "c1", pub, ttp, FALSE, <<>>)
    \/ \E u \in Users, id \in 1..MaxPosts,
          d \in [content : Contents, is_published : BOOLEAN, author : {1}] :
             PostUpdate(u, id, d)
    \/ CommentCreate(2, 1, "c1")
    \/ \E t \in tasks : WorkerRun(t)
    \/ Tick

SpecOneWay == Init /\ [][NextOneWay]_vars

\* ------------------------------------------------------------ owner spec
\* a populated database, as the create requests of users 1 and 2 leave it:
\* user 1 has a profile, follows user 2 and has published a post, which
\* user 2 has commented on and liked
InitOwner ==
    /\ now = 0
    /\ strict_typing = TRUE
    /\ profiles = {[id |-> 1, user |-> 1, bio |-> "b1"]}
    /\ follows = {[id |-> 1, follower |-> 1, followee |-> 2]}
    /\ posts = {[id |-> 1, author |-> 1, content |-> "c1",
                 is_published |-> TRUE, time_to_publicate |-> NoTime]}
    /\ images = {}
    /\ hashtags = {}
    /\ post_hashtags = {}
    /\ comments = {[id |-> 1, reviewer |-> 2, post |-> 1, content |-> "c1"]}
    /\ likes = {[id |-> 1, post |-> 1, reviewer |-> 2, is_likes |-> TRUE]}
    /\ tasks = {}
    /\ seq = [t \in TableNames |->
                IF t \in {"profile", "follow", "post", "comment", "like"}
                THEN 1 ELSE 0]
    /\ inflight = EmptyBag
    /\ resp = NoResponse

\* every update and delete request, by every requester
NextOwner ==
    \/ \E u \in Requesters, id \in 1..MaxProfileId, b \in Bios : ProfileUpdate(u, id, b)
    \/ \E u \in Requesters, id \in 1..MaxProfileId : ProfileDestroy(u, id)
    \/ \E u \in Requesters, id \in 1..MaxPosts, d \in PostBodies : PostUpdate(u, id, d)
    \/ \E u \in Requesters, id \in 1..MaxPosts : PostDestroy(u, id)
    \/ \E u \in Requesters, id \in 1..MaxComments,
          d \in [reviewer : Users, post : 1..MaxPosts, content : Contents] :
              CommentUpdate(u, id, d)
    \/ \E u \in Requesters, id \in 1..MaxComments : CommentDestroy(u, id)
    \/ \E u \in Requesters, id \in 1..MaxLikes, b \in BOOLEAN : LikeUpdate(u, id, b)
    \/ \E u \in Requesters, id \in 1..MaxLikes : LikeDestroy(u, id)
    \/ \E u \in Requesters, id \in 1..MaxFollowId : FollowDestroy(u, id)

SpecOwner == InitOwner /\ [][NextOwner]_vars

\* ------------------------------------------------------------ the program
Next ==
    \/ \E u \in Requesters, f \in Users : FollowValidate(u, f)
    \/ \E r \in BagToSet(inflight) : FollowSave(r)
    \/ \E u \in Requesters, id \in 1..MaxFollowId : FollowDestroy(u, id)
    \/ \E u \in Requesters, b \in Bios : ProfileValidate(u, b)
    \/ \E r \in BagToSet(inflight) : ProfileSave(r)
    \/ \E u \in Requesters, id \in 1..MaxProfileId, b \in Bios : ProfileUpdate(u, id, b)
    \/ \E u \in Requesters, id \in 1..MaxProfileId : ProfileDestroy(u, id)
    \/ \E u \in Requesters, c \in Contents, pub \in PubInputs, ttp \in Times,
          img \in BOOLEAN, texts \in TagLists : PostCreate(u, c, pub, ttp, img, texts)
    \/ \E u \in Requesters, id \in 1..MaxPosts, d \in PostBodies : PostUpdate(u, id, d)
    \/ \E u \in Requesters, id \in 1..MaxPosts : PostDestroy(u, id)
    \/ \E u \in Requesters, id \in 1..MaxPosts : UploadImage(u, id)
    \/ \E u \in Requesters, p \in 1..MaxPosts, c \in Contents : CommentCreate(u, p, c)
    \/ \E u \in Requesters, id \in 1..MaxComments,
          d \in [reviewer : Users, post : 1..MaxPosts, content : Contents] :
              CommentUpdate(u, id, d)
    \/ \E u \in Requesters, id \in 1..MaxComments : CommentDestroy(u, id)
    \/ \E u \in Requesters, p \in 1..MaxPosts, b \in BOOLEAN : LikeValidate(u, p, b)
    \/ \E r \in BagToSet(inflight) : LikeSave(r)
    \/ \E u \in Requesters, p \in 1..MaxPosts, b \in BOOLEAN : PostLike(u, p, b)
    \/ \E u \in Requesters, id \in 1..MaxLikes, b \in BOOLEAN : LikeUpdate(u, id, b)
    \/ \E u \in Requesters, id \in 1..MaxLikes : LikeDestroy(u, id)
    \/ \E t \in tasks : WorkerRun(t)
    \/ Tick

Spec == Init /\ [][Next]_vars

\* ------------------------------------------------------------ claims
\* C1: no Follow row has follower = followee, and a follow-create request
\* whose followee is the requesting user is rejected by validation (400): it
\* never reaches the INSERT.
C1_NoSelfFollow ==
    /\ \A r \in follows : r.follower # r.followee
    /\ \A r \in BagToSet(inflight) : r.kind = "follow" => r.user # r.obj
    /\ (resp.op = "follow_create" /\ resp.user = resp.obj)
          => resp.status = HTTP_400_BAD_REQUEST

\* a self-follow request was answered while Follow rows exist and one was
\* deleted before
C1_Witness ==
    /\ resp.op = "follow_create" /\ resp.user = resp.obj
    /\ resp.status = HTTP_400_BAD_REQUEST
    /\ follows # {}
    /\ seq["follow"] > Cardinality(follows)

\* C4: each user has at most one Profile row, and a step of a profile-create
\* request by a user who has a profile leaves every existing Profile row as
\* it is and adds no row for that user.
C4_AtMostOneProfile ==
    \A u \in Users : Cardinality({r \in profiles : r.user = u}) <= 1

C4_ProfileCreateStep ==
    \/ \E u \in Requesters, b \in Bios : ProfileValidate(u, b)
    \/ \E r \in BagToSet(inflight) : ProfileSave(r)

\* C4, over behaviours: at most one Profile row per user in every state, and
\* profile-create steps leave existing rows alone.
C4_ProfileIdempotent ==
    /\ []C4_AtMostOneProfile
    /\ [][C4_ProfileCreateStep =>
            /\ profiles \subseteq profiles'
            /\ \A u \in Users :
                 (\E r \in profiles : r.user = u) =>
                     {r \in profiles' : r.user = u} = {r \in profiles : r.user = u}]_vars

\* two requests of one user were both validated, one was saved and the other
\* was then refused by the unique index
C4_Witness ==
    /\ resp.op = "profile_create" /\ resp.status = HTTP_500_SERVER_ERROR
    /\ resp.user \in Users
    /\ \E r \in profiles : r.user = resp.user

\* C5: at most one Follow row per (follower, followee) pair, and no step adds
\* a row for a pair that has one.
C5_UniquePair ==
    \A r1, r2 \in follows :
        (r1.follower = r2.follower /\ r1.followee = r2.followee) => r1 = r2

\* C5, over behaviours: pairs are unique in every state and no step adds a
\* row for a pair that has one.
C5_UniqueFollow ==
    /\ []C5_UniquePair
    /\ [][\A u, f \in Users :
            (\E r \in follows : r.follower = u /\ r.followee = f) =>
                {r \in follows' : r.follower = u /\ r.followee = f}
                    \subseteq {r \in follows : r.follower = u /\ r.followee = f}]_vars

\* a second request for a pair passed validation concurrently and its INSERT
\* was refused
C5_Witness ==
    /\ resp.op = "follow_create" /\ resp.status = HTTP_500_SERVER_ERROR
    /\ resp.user \in Users /\ resp.user # resp.obj
    /\ \E r \in follows : r.follower = resp.user /\ r.followee = resp.obj

\* C2: no Like row has as reviewer the author of its post.
C2_NoLikeOfOwnPost ==
    \A l \in likes :
        l.post \in Ids(posts) => l.reviewer # Row(posts, l.post).author

\* C3: no Comment row has as reviewer the author of its post, a comment-create
\* request by the post's author is answered 400, and no step changes the
\* reviewer or the post of a Comment row.
C3_NoOwnComment ==
    /\ \A c \in comments :
          c.post \in Ids(posts) /\ c.reviewer # Row(posts, c.post).author
    /\ (resp.op = "comment_create" /\ resp.obj \in Ids(posts)
          /\ resp.user = Row(posts, resp.obj).author)
             => resp.status = HTTP_400_BAD_REQUEST

\* C3, over behaviours: the state condition always holds and no step changes
\* the reviewer or the post of a Comment row.
C3_NoCommentOnOwnPost ==
    /\ []C3_NoOwnComment
    /\ [][\A c \in comments, d \in comments' :
            c.id = d.id => (c.reviewer = d.reviewer /\ c.post = d.post)]_vars

\* the author's comment on the own post was refused, and another user's
\* comment on that post exists with updated content
C3_Witness ==
    /\ resp.op = "comment_create" /\ resp.obj \in Ids(posts)
    /\ resp.user = Row(posts, resp.obj).author
    /\ resp.status = HTTP_400_BAD_REQUEST
    /\ \E c \in comments : c.post = resp.obj /\ c.content = "c2"

\* C6: every unpublished post with a publication time has a publish_post
\* message with eta = time_to_publicate, and once the worker has run that
\* message the post (while it exists) is published.
C6_ScheduledPublication ==
    /\ \A p \in posts :
          (~p.is_published /\ p.time_to_publicate # NoTime) =>
              \E t \in tasks : t.args = <<PkArg(p.id)>> /\ t.eta = p.time_to_publicate
    /\ \A t \in tasks :
          (t.runs > 0 /\ t.args[1].pk \in Ids(posts)) =>
              Row(posts, t.args[1].pk).is_published

\* C7: a post-create request of a user with is_published = False is accepted
\* exactly when time_to_publicate is present and later than the clock at the
\* request, and every unpublished Post row has a time_to_publicate.
C7_UnpublishedNeedsFutureTime ==
    /\ (resp.op = "post_create" /\ resp.user \in Users /\ resp.is_published = "False")
          => (resp.status = HTTP_201_CREATED
                <=> (resp.ttp # NoTime /\ resp.ttp[1] > resp.at))
    /\ \A p \in posts : ~p.is_published => p.time_to_publicate # NoTime

\* C8: a failed execution of publish_post is re-attempted: a message is
\* abandoned (FAILURE) only after max_retries retries, max_retries + 1
\* executions, and is never executed more often.
C8_FixedRetryCount ==
    \A t \in tasks :
        /\ t.runs <= max_retries + 1
        /\ t.state = "FAILURE" => (t.retries = max_retries /\ t.runs = max_retries + 1)

\* C9: a request that violates a validation rule is answered 400.
C9_ValidationErrorsAre400 ==
    /\ (resp.op = "follow_create" /\ resp.user = resp.obj)
          => resp.status = HTTP_400_BAD_REQUEST
    /\ (resp.op = "comment_create" /\ resp.obj \in Ids(posts)
          /\ resp.user = Row(posts, resp.obj).author)
             => resp.status = HTTP_400_BAD_REQUEST
    /\ (resp.op = "post_like" /\ resp.obj \in Ids(PostViewSet_queryset)
          /\ resp.user = Row(posts, resp.obj).author)
             => resp.status = HTTP_400_BAD_REQUEST
    /\ (resp.op = "post_create" /\ resp.is_published = "False"
          /\ (resp.ttp = NoTime \/ resp.ttp[1] <= resp.at))
             => resp.status = HTTP_400_BAD_REQUEST
    /\ (resp.op = "upload_image" /\ resp.obj \in Ids(PostViewSet_queryset)
          /\ resp.user \in Users /\ resp.user # Row(posts, resp.obj).author)
             => resp.status = HTTP_400_BAD_REQUEST
    /\ (resp.op = "profile_create" /\ resp.user \in Users
          /\ resp.status # HTTP_201_CREATED)
             => resp.status = HTTP_400_BAD_REQUEST

\* C10: no post-reading operation returns an unpublished post to a user
\* other than its author.
C10_Reads(u) ==
    UNION {PostList(u, tags, author, content) :
              tags \in SUBSET Tags, author \in SUBSET Users, content \in SUBSET Contents}
      \cup UNION {PostRetrieve(u, id) : id \in 1..MaxPosts}
      \cup my_following(u)
      \cup liked(u)

\* C10: every post a read returns to a user is published or the user's own.
C10_UnpublishedHidden ==
    \A u \in Requesters : \A p \in C10_Reads(u) : p.is_published \/ p.author = u

C11_ModifyOps ==
    {"profile_update", "profile_destroy", "post_update", "post_destroy",
     "comment_update", "comment_destroy", "like_update", "like_destroy",
     "follow_destroy"}

C11_ByOwner(r, owner, ops) ==
    /\ resp'.op \in ops /\ resp'.obj = r.id => 
          IF resp'.user = owner
          THEN resp'.status \in {HTTP_200_OK, HTTP_204_NO_CONTENT}
          ELSE /\ resp'.status \in {HTTP_403_FORBIDDEN, HTTP_404_NOT_FOUND}
               /\ UNCHANGED tables

C11_WithPost(r) ==
    /\ resp'.op = "post_destroy"
    /\ resp'.obj = r.post
    /\ resp'.status = HTTP_204_NO_CONTENT
    /\ resp'.user = Row(posts, r.post).author

\* C11: an update or delete request changes or removes a Profile, Post,
\* Comment, Like or Follow row only when the requesting user is the row's
\* owner (rows that reference a post go with it when its author deletes it);
\* a request on an object by another requester is answered 403 or 404 and
\* changes no table.  Every step of the owner specification is a request, so
\* resp' is the response to the step's request.
C11_OwnerOnly ==
    [][/\ resp'.op \in C11_ModifyOps
       /\ \A r \in profiles :
             /\ C11_ByOwner(r, r.user, {"profile_update", "profile_destroy"})
             /\ r \notin profiles' =>
                   /\ resp'.op \in {"profile_update", "profile_destroy"}
                   /\ resp'.obj = r.id /\ resp'.user = r.user
       /\ \A r \in posts :
             /\ C11_ByOwner(r, r.author, {"post_update", "post_destroy"})
             /\ r \notin posts' =>
                   /\ resp'.op \in {"post_update", "post_destroy"}
                   /\ resp'.obj = r.id /\ resp'.user = r.author
       /\ \A r \in comments :
             /\ C11_ByOwner(r, r.reviewer, {"comment_update", "comment_destroy"})
             /\ r \notin comments' =>
                   \/ /\ resp'.op \in {"comment_update", "comment_destroy"}
                      /\ resp'.obj = r.id /\ resp'.user = r.reviewer
                   \/ C11_WithPost(r)
       /\ \A r \in likes :
             /\ C11_ByOwner(r, r.reviewer, {"like_update", "like_destroy"})
             /\ r \notin likes' =>
                   \/ /\ resp'.op \in {"like_update", "like_destroy"}
                      /\ resp'.obj = r.id /\ resp'.user = r.reviewer
                   \/ C11_WithPost(r)
       /\ \A r \in follows :
             /\ C11_ByOwner(r, r.follower, {"follow_destroy"})
             /\ r \notin follows' =>
                   /\ resp'.op = "follow_destroy"
                   /\ resp'.obj = r.id /\ resp'.user = r.follower
      ]_vars

\* an authenticated user who is not the author was denied the update of a
\* post, which is as it was, after its author had updated it
C11_Witness ==
    /\ resp.op = "post_update"
    /\ resp.status = HTTP_403_FORBIDDEN
    /\ resp.user \in Users
    /\ \E p \in posts :
          p.id = resp.obj /\ p.author # resp.user /\ p.content = "c2"

\* C12: a list or retrieve request by an unauthenticated requester on the
\* profile, follow, post, comment and like endpoints returns no object.
C12_AnonymousReadsDenied ==
    /\ ProfileViewSet_list(Anon, NoQuery).rows = {}
    /\ \A id \in 1..MaxProfileId : ProfileRetrieve(Anon, id) = {}
    /\ FollowList(Anon) = {}
    /\ \A id \in 1..MaxFollowId : FollowRetrieve(Anon, id) = {}
    /\ PostList(Anon, {}, {}, {}) = {}
    /\ \A id \in 1..MaxPosts : PostRetrieve(Anon, id) = {}
    /\ CommentList(Anon) = {}
    /\ \A id \in 1..MaxComments : CommentRetrieve(Anon, id) = {}
    /\ LikeList(Anon) = {}
    /\ \A id \in 1..MaxLikes : LikeRetrieve(Anon, id) = {}

\* C13: the post like action, invoked on a published post by an
\* authenticated user who is not its author, is answered 201 and leaves a
\* Like row of that user for that post.
C13_LikeActionRecords ==
    (/\ resp.op = "post_like"
     /\ resp.user \in Users
     /\ resp.obj \in Ids(PostViewSet_queryset)
     /\ resp.user # Row(posts, resp.obj).author)
        => /\ resp.status = HTTP_201_CREATED
           /\ \E l \in likes : l.post = resp.obj /\ l.reviewer = resp.user

\* C14: an Image row is added only by a request of the author of the post
\* it belongs to (the post-create request or upload_image), and an
\* upload_image request on a published post by anyone else is rejected by
\* the object permission check (403) and adds no Image row.  Every step of
\* the image specification is a request, so resp' is its response.
C14_ImagesByAuthor ==
    [][/\ \A i \in images' \ images :
             /\ resp'.op \in {"post_create", "upload_image"}
             /\ resp'.status = HTTP_201_CREATED
             /\ resp'.obj = i.post
             /\ i.post \in Ids(posts')
             /\ resp'.user = Row(posts', i.post).author
       /\ (/\ resp'.op = "upload_image"
           /\ resp'.obj \in Ids(PostViewSet_queryset)
           /\ resp'.user # Row(posts, resp'.obj).author)
              => /\ resp'.status = HTTP_403_FORBIDDEN
                 /\ images' = images
      ]_vars

\* an upload by a user who is not the author was rejected, on a post that
\* carries two images of its author: one from post-create, one uploaded
C14_Witness ==
    /\ resp.op = "upload_image"
    /\ resp.status = HTTP_403_FORBIDDEN
    /\ resp.user \in Users
    /\ \E p \in posts :
          /\ p.id = resp.obj
          /\ p.author # resp.user
          /\ Cardinality({i \in images : i.post = p.id}) = 2

\* C15: there is one Hashtag row per tag text; a post-create request adds
\* a Hashtag row only for a text that has none and removes none; every text
\* sent with a created post is linked to that post, through the one row of
\* that text.
C15_HashtagsUniqueAndReused ==
    /\ [](/\ \A g, h \in hashtags : (g.text = h.text \/ g.id = h.id) => g = h
          /\ \A l \in post_hashtags :
                l.hashtag \in Ids(hashtags) /\ l.post \in Ids(posts)
          /\ (resp.op = "post_create" /\ resp.status = HTTP_201_CREATED)
                => \A i \in 1..Len(resp.texts) :
                      \E l \in post_hashtags, h \in hashtags :
                         /\ l.post = resp.obj
                         /\ l.hashtag = h.id
                         /\ h.text = resp.texts[i])
    /\ [][/\ hashtags \subseteq hashtags'
          /\ \A h \in hashtags' \ hashtags :
                ~\E g \in hashtags : g.text = h.text]_vars

\* a post created with the same text twice is linked to the row an earlier
\* post had created for that text, and to no other
C15_Witness ==
    /\ resp.op = "post_create"
    /\ resp.status = HTTP_201_CREATED
    /\ resp.texts = <<"t1", "t1">>
    /\ \E h \in hashtags :
          /\ h.text = "t1"
          /\ {l.post : l \in {x \in post_hashtags : x.hashtag = h.id}}
                = Ids(posts)
          /\ Cardinality(posts) = 2
          /\ Cardinality(post_hashtags) = 2

\* C16: a profile list request whose user_id is not an integer, or whose
\* joined is not two YYYY-MM-DD dates, is answered 400 with an error entry
\* for that parameter, whatever the other parameters are.
C16_MalformedFilterIs400 ==
    resp.op = "profile_list" =>
       /\ (resp.query.user_id # "" /\ int(resp.query.user_id) = <<>>)
             => /\ resp.status = HTTP_400_BAD_REQUEST
                /\ "user_id" \in resp.errors
       /\ (resp.query.joined # <<>> /\ ~joined_parses(resp.query.joined))
             => /\ resp.status = HTTP_400_BAD_REQUEST
                /\ "joined" \in resp.errors

\* C17: no two Like rows have the same post and reviewer, whatever the
\* interleaving of the like-creating requests, and a Like row keeps its post
\* and its reviewer for as long as it exists.
C17_OneLikePerPair ==
    /\ [](\A k, l \in likes :
             (k.post = l.post /\ k.reviewer = l.reviewer) => k = l)
    /\ [][\A k \in likes, l \in likes' :
             k.id = l.id => (k.post = l.post /\ k.reviewer = l.reviewer)]_vars

\* two like-create requests for one pair had both passed validation; the
\* first was saved and then updated, the second was refused by the database
C17_Witness ==
    /\ resp.op = "like_create"
    /\ resp.status = HTTP_500_SERVER_ERROR
    /\ \E l \in likes :
          /\ l.post = resp.obj
          /\ l.reviewer = resp.user
          /\ ~l.is_likes
    /\ Cardinality(likes) = 1

\* C18: a post-create request that is not answered 201 leaves every table
\* and the task queue as they were; one that is answered 201 has added the
\* Post row, at most one Image row of that post, a link to a Hashtag row for
\* every text sent, and a publish task exactly when the post is scheduled,
\* naming that post.  A step of the create specification that leaves the
\* clock alone is a post-create request.
C18_CreateIsAtomic ==
    [][now' = now =>
         /\ resp'.op = "post_create"
         /\ IF resp'.status = HTTP_201_CREATED
            THEN /\ \E p \in posts' : p.id = resp'.obj /\ posts' = posts \cup {p}
                 /\ resp'.obj \notin Ids(posts)
                 /\ images \subseteq images'
                 /\ Cardinality(images' \ images) <= 1
                 /\ \A i \in images' \ images : i.post = resp'.obj
                 /\ hashtags \subseteq hashtags'
                 /\ \A i \in 1..Len(resp'.texts) :
                       \E l \in post_hashtags' \ post_hashtags, h \in hashtags' :
                          /\ l.post = resp'.obj
                          /\ l.hashtag = h.id
                          /\ h.text = resp'.texts[i]
                 /\ IF resp'.is_published = "False"
                    THEN \E t \in tasks' \ tasks :
                            /\ tasks' = tasks \cup {t}
                            /\ t.args = <<PkArg(resp'.obj)>>
                    ELSE tasks' = tasks
            ELSE UNCHANGED <<tables, tasks>>
      ]_vars

\* a scheduled post with a hashtag was refused when its task was enqueued,
\* and no row of it is left
C18_Witness ==
    /\ resp.op = "post_create"
    /\ resp.status = HTTP_500_SERVER_ERROR
    /\ resp.user \in Users
    /\ resp.is_published = "False"
    /\ resp.ttp # NoTime /\ resp.ttp[1] > resp.at
    /\ resp.texts # <<>>
    /\ posts = {} /\ hashtags = {} /\ post_hashtags = {} /\ tasks = {}

\* C19: a step changes the is_published of a post only from FALSE to TRUE
\* and only when it is a run of publish_post (the task queue changes and no
\* response is sent), which then leaves the post's other fields and every
\* other post as they were; no post row disappears.
C19_PublicationOneWay ==
    [][\A p \in posts :
          \E q \in posts' :
             /\ q.id = p.id
             /\ q.is_published # p.is_published =>
                   /\ ~p.is_published /\ q.is_published
                   /\ tasks' # tasks /\ resp' = resp
                   /\ q = [p EXCEPT !.is_published = TRUE]
                   /\ posts' \ {q} = posts \ {p}
      ]_vars

\* the author has updated a published post, which is still published, and
\* publish_post has run for a scheduled one
C19_Witness ==
    /\ resp.op = "post_update"
    /\ resp.status = HTTP_200_OK
    /\ \E p \in posts :
          p.id = resp.obj /\ p.content = "c2" /\ p.is_published
    /\ \E t \in tasks : t.runs > 0

\* C20: for all users A and B, B is in A's following list exactly when A
\* is in B's followers list, exactly when a Follow row (A, B) exists; the
\* follow endpoint lists and retrieves for a requester only rows whose
\* follower the requester is, and a Follow row is removed only by a delete
\* request of its follower.
C20_OneRelation ==
    /\ [](/\ \A A, B \in Users :
                /\ B \in MyFollowingSet(A) <=> A \in MyFollowersSet(B)
                /\ B \in MyFollowingSet(A) <=>
                      \E r \in follows : r.follower = A /\ r.followee = B
          /\ \A u \in Requesters :
                /\ \A r \in FollowList(u) : r.follower = u
                /\ \A id \in 1..MaxFollowId :
                      \A r \in FollowRetrieve(u, id) : r.follower = u)
    /\ [][\A r \in follows \ follows' :
             /\ resp'.op = "follow_destroy"
             /\ resp'.obj = r.id
             /\ resp'.user = r.follower]_vars

\* two users follow each other, and the delete request of one of them for
\* the other's Follow row found no such row
C20_Witness ==
    /\ resp.op = "follow_destroy"
    /\ resp.status = HTTP_404_NOT_FOUND
    /\ resp.user \in Users
    /\ \E r \in follows : r.id = resp.obj /\ r.follower # resp.user
    /\ \E A, B \in Users :
          /\ A # B
          /\ B \in MyFollowingSet(A) /\ A \in MyFollowersSet(B)
          /\ A \in MyFollowingSet(B) /\ B \in MyFollowersSet(A)

====
